---- MODULE Spec2Model ----
(***************************************************************************)
(* A model of summarizer.py: the timestamp formatter, the line chunker and *)
(* the map-reduce summarization pipeline (summarize_with_chatgpt_chunked). *)
(*                                                                         *)
(* A Python str is a sequence of one-character strings.  "LF" stands for   *)
(* the line feed '\n', "CR" for the carriage return '\r', "TAB" for '\t'.  *)
(***************************************************************************)
EXTENDS Integers, Sequences, FiniteSets, TLC

\* ------------------------------------------------------------- bounds

\* Longest text handed to the chunker harness.
MaxLen == 5
\* Largest max_chars handed to the chunker harness.
MaxChars == 6
\* max_chars goes down to -NegChars in the chunker harness.
NegChars == 1
\* Largest hour count of the timestamp harness.
MaxHours == 101
\* A seconds value (a Python float) is held as a count of 1/Scale seconds.
Scale == 2
\* Longest transcript handed to the pipeline.
MaxEntries == 2

\* ------------------------------------------------------- Python str

LF == "LF"
CR == "CR"
\* The line boundaries str.splitlines() knows, among the model's characters.
LineBreaks == {LF, CR}
\* The characters str.strip() removes, among the model's characters.
Whitespace == {" ", LF, CR, "TAB"}

\* Index of the first line boundary of s at or after i, or 0.
RECURSIVE FirstBreak(_, _)
FirstBreak(s, i) ==
  IF i > Len(s) THEN 0
  ELSE IF s[i] \in LineBreaks THEN i
  ELSE FirstBreak(s, i + 1)

\* str.splitlines(): the lines of s without their line breaks; "\r\n" is one
\* boundary, and a line break that ends s opens no further (empty) line.
RECURSIVE splitlines(_)
splitlines(s) ==
  IF s = << >> THEN << >>
  ELSE LET b == FirstBreak(s, 1) IN
       IF b = 0 THEN << s >>
       ELSE LET skip == IF s[b] = CR /\ b < Len(s) /\ s[b + 1] = LF
                        THEN b + 1 ELSE b
            IN << SubSeq(s, 1, b - 1) >> \o splitlines(SubSeq(s, skip + 1, Len(s)))

\* sep.join(parts)
RECURSIVE join(_, _)
join(sep, parts) ==
  IF parts = << >> THEN << >>
  ELSE IF Len(parts) = 1 THEN parts[1]
  ELSE parts[1] \o sep \o join(sep, Tail(parts))

\* str.strip(): leading and trailing whitespace removed.
RECURSIVE lstrip(_)
lstrip(s) ==
  IF s # << >> /\ s[1] \in Whitespace THEN lstrip(Tail(s)) ELSE s

RECURSIVE rstrip(_)
rstrip(s) ==
  IF s # << >> /\ s[Len(s)] \in Whitespace
  THEN rstrip(SubSeq(s, 1, Len(s) - 1)) ELSE s

strip(s) == rstrip(lstrip(s))

\* ----------------------------------------------------- format_timestamp

DigitChars == << "0", "1", "2", "3", "4", "5", "6", "7", "8", "9" >>

\* The decimal digits of n >= 0.
RECURSIVE Decimal(_)
Decimal(n) ==
  IF n < 10 THEN << DigitChars[n + 1] >>
  ELSE Decimal(n \div 10) \o << DigitChars[(n % 10) + 1] >>

\* The format spec ":02": zero-padded to a width of at least 2.
Pad02(n) ==
  LET d == Decimal(n) IN IF Len(d) < 2 THEN << "0" >> \o d ELSE d

\* int(seconds // 3600), seconds a count of 1/Scale seconds.
Hours(seconds) == seconds \div (3600 * Scale)

\* int((seconds % 3600) // 60)
MinutesNoWrap(seconds) == seconds \div (60 * Scale)
Minutes(seconds) == (seconds % (3600 * Scale)) \div (60 * Scale)

\* int(seconds % 60)
Secs(seconds) == (seconds % (60 * Scale)) \div Scale

format_timestamp(seconds) ==
  Pad02(Hours(seconds)) \o << ":" >> \o Pad02(Minutes(seconds))
    \o << ":" >> \o Pad02(Secs(seconds))

\* ---------------------------------------------------- chunk_text_by_chars

\* Line 97: the whole text fits the budget.
FitsWholeStrict(text, max_chars) == Len(text) < max_chars
FitsWhole(text, max_chars) == Len(text) <= max_chars

\* Line 101: a line costs its length plus one separator.
LineCostNoSep(line) == Len(line)
LineCost(line) == Len(line) + 1

\* Lines 100-106: the loop over the lines from the i-th on; the state is
\* (chunks, cur, cur_len).  Lines 107-109: the last flush and the return.
RECURSIVE ChunkLoop(_, _, _, _, _, _)
ChunkLoop(lines, i, chunks, cur, cur_len, max_chars) ==
  IF i > Len(lines)
  THEN IF cur # << >> THEN Append(chunks, join(<< LF >>, cur)) ELSE chunks
  ELSE LET line == lines[i]
           L == LineCost(line)
           flush == cur_len + L > max_chars /\ cur # << >>
           chunks1 == IF flush THEN Append(chunks, join(<< LF >>, cur)) ELSE chunks
           cur1 == IF flush THEN << >> ELSE cur
           cur_len1 == IF flush THEN 0 ELSE cur_len
       IN ChunkLoop(lines, i + 1, chunks1, Append(cur1, line), cur_len1 + L, max_chars)

chunk_text_by_chars(text, max_chars) ==
  IF FitsWhole(text, max_chars) THEN << text >>
  ELSE ChunkLoop(splitlines(text), 1, << >>, << >>, 0, max_chars)

\* ------------------------------------------------------------- state

VARIABLES
  \* chunker harness: one call chunk_text_by_chars(in_text, in_max_chars)
  in_text, in_max_chars, out_chunks, cstate,
  \* timestamp harness: one call format_timestamp(in_seconds)
  in_seconds, out_stamp, tstate,
  \* the module attribute openai.api_key, shared by every run of the process
  api_key,
  \* the runs of summarize_with_chatgpt_chunked and, per run, its arguments,
  \* its locals, its position, the requests it sent and what it returned
  active, pc, transcript, openai_api_key, max_chars,
  formatted, chunks, partial_summaries, calls, raised, result

chunkerVars == << in_text, in_max_chars, out_chunks, cstate >>
stampVars == << in_seconds, out_stamp, tstate >>
runVars == << api_key, active, pc, transcript, openai_api_key, max_chars,
              formatted, chunks, partial_summaries, calls, raised, result >>
vars == << chunkerVars, stampVars, runVars >>

Runs == {1, 2}
NoValue == [pytype |-> "NoneType", s |-> << >>]
PyStr(s) == [pytype |-> "str", s |-> s]

\* Every variable of the pipeline at rest: no run is active.
RunsIdle ==
  /\ api_key = "unset"
  /\ active = {}
  /\ pc = [r \in Runs |-> "START"]
  /\ transcript = [r \in Runs |-> << >>]
  /\ openai_api_key = [r \in Runs |-> "unset"]
  /\ max_chars = [r \in Runs |-> 0]
  /\ formatted = [r \in Runs |-> << >>]
  /\ chunks = [r \in Runs |-> << >>]
  /\ partial_summaries = [r \in Runs |-> << >>]
  /\ calls = [r \in Runs |-> << >>]
  /\ raised = [r \in Runs |-> "none"]
  /\ result = [r \in Runs |-> NoValue]

ChunkerIdle ==
  /\ in_text = << >>
  /\ in_max_chars = 0
  /\ out_chunks = << >>
  /\ cstate = "idle"

StampIdle ==
  /\ in_seconds = 0
  /\ out_stamp = << >>
  /\ tstate = "idle"

\* ------------------------------------------------- the chunker harness

TextChars == {"a", "b", LF, CR}

RECURSIVE TextsOfLen(_)
TextsOfLen(n) ==
  IF n = 0 THEN { << >> }
  ELSE { Append(t, c) : t \in TextsOfLen(n - 1), c \in TextChars }

Texts == UNION { TextsOfLen(n) : n \in 0..MaxLen }

InitChunker ==
  /\ in_text \in Texts
  /\ in_max_chars \in (0 - NegChars)..MaxChars
  /\ out_chunks = << >>
  /\ cstate = "called"
  /\ StampIdle
  /\ RunsIdle

\* Lines 96-109 have no raise statement: the call returns its list.
ChunkCall ==
  /\ cstate = "called"
  /\ out_chunks' = chunk_text_by_chars(in_text, in_max_chars)
  /\ cstate' = "returned"
  /\ UNCHANGED << in_text, in_max_chars, stampVars, runVars >>

NextChunker == ChunkCall

SpecChunker == InitChunker /\ [][NextChunker]_vars

\* ----------------------------------------------- the timestamp harness

HourSamples == {0, 1, 2, 9, 10, 99, 100, MaxHours}

InitTimestamp ==
  /\ in_seconds \in { (h * 3600 + s) * Scale + f :
                        h \in HourSamples, s \in 0..3599, f \in 0..(Scale - 1) }
  /\ out_stamp = << >>
  /\ tstate = "called"
  /\ ChunkerIdle
  /\ RunsIdle

FormatCall ==
  /\ tstate = "called"
  /\ out_stamp' = format_timestamp(in_seconds)
  /\ tstate' = "returned"
  /\ UNCHANGED << in_seconds, chunkerVars, runVars >>

NextTimestamp == FormatCall

SpecTimestamp == InitTimestamp /\ [][NextTimestamp]_vars

\* -------------------------------------------------------- the pipeline

\* The default of max_chars (line 134).
DefaultMaxChars == 7000
\* A budget that holds one rendered line and not two.
SmallBudget == 30

\* Caption entries as fetch_transcript_with_timestamps builds them (lines
\* 36-40); times are counts of 1/Scale seconds.  A caption text may hold a line
\* break of its own.  The last entry lacks its "text" key.
Entries ==
  { [start_time |-> 0, end_time |-> 2 * Scale, text |-> << "H", "i" >>],
    [start_time |-> 2 * Scale + 1, end_time |-> 3661 * Scale,
     text |-> << "y", LF, "o" >>],
    [start_time |-> 5 * Scale, end_time |-> 9 * Scale] }

RECURSIVE TranscriptsOfLen(_)
TranscriptsOfLen(n) ==
  IF n = 0 THEN { << >> }
  ELSE { Append(t, e) : t \in TranscriptsOfLen(n - 1), e \in Entries }

\* Transcripts in start_time order, as the caption service gives them.
Transcripts ==
  { t \in UNION { TranscriptsOfLen(n) : n \in 0..MaxEntries } :
      \A i \in 1..(Len(t) - 1) : t[i].start_time <= t[i + 1].start_time }

Budgets == {0, 1, SmallBudget, DefaultMaxChars}
Keys == {"k1", "k2"}

\* What the completion service may answer: a text, or an error.
Responses == { << "s" >>, << " ", "t", LF >> }
LLMErrors == {"RateLimitError", "AuthenticationError"}

\* str(e) of the exceptions of the model.
ErrText(kind) ==
  CASE kind = "KeyError" -> << "'", "t", "e", "x", "t", "'" >>
    [] kind = "RateLimitError" -> << "4", "2", "9" >>
    [] kind = "AuthenticationError" -> << "4", "0", "1" >>

\* The prefix of the single-shot summarizer's message (line 94).
ErrPrefixSingleShot ==
  << "E", "r", "r", "o", "r", " ", "d", "u", "r", "i", "n", "g", " ", "s", "u", "m",
     "m", "a", "r", "i", "z", "a", "t", "i", "o", "n", ":", " " >>

\* The f-string of line 170.
ErrPrefix ==
  << "E", "r", "r", "o", "r", " ", "d", "u", "r", "i", "n", "g", " ", "s", "u", "m",
     "m", "a", "r", "i", "z", "a", "t", "i", "o", "n", " ", "(", "c", "h", "u", "n",
     "k", "e", "d", ")", ":", " " >>

\* Line 169: "except Exception" catches every exception class of the model.
CatchesLookupOnly(kind) == kind = "KeyError"
Catches(kind) == kind \in {"KeyError"} \cup LLMErrors

\* Line 138: one rendered line.
RenderLine(e) ==
  << "[" >> \o format_timestamp(e.start_time) \o << " ", "-", " " >>
    \o format_timestamp(e.end_time) \o << "]", " " >> \o e.text

\* Line 138 raises KeyError at an entry without its "text".
RenderRaises(t) == \E i \in 1..Len(t) : "text" \notin DOMAIN t[i]

\* Lines 137-140.
Render(t) == join(<< LF >>, [i \in 1..Len(t) |-> RenderLine(t[i])])

\* Line 157: the partial summaries joined by "\n\n---\n\n".
MergeSeparator == << LF, LF, "-", "-", "-", LF, LF >>
MergeUserReversed(partials) ==
  join(MergeSeparator, [i \in 1..Len(partials) |-> partials[Len(partials) + 1 - i]])
MergeUser(partials) == join(MergeSeparator, partials)

\* One request to openai.ChatCompletion.create.  The call is given no api_key
\* argument (lines 123-130, 160-167), so the library reads openai.api_key when
\* the call is made.  "user" is the part of the prompt that varies.
Request(stage, k, user, outcome, text) ==
  [stage |-> stage, chunk |-> k, user |-> user, api_key |-> api_key,
   outcome |-> outcome, text |-> text]

\* Lines 169-170: the handler of the run, entered with the exception raised.
Handle(r, kind) ==
  /\ raised' = [raised EXCEPT ![r] = kind]
  /\ IF Catches(kind)
     THEN /\ result' = [result EXCEPT ![r] = PyStr(ErrPrefix \o ErrText(kind))]
          /\ pc' = [pc EXCEPT ![r] = "RETURNED"]
     ELSE /\ pc' = [pc EXCEPT ![r] = "CRASHED"]
          /\ UNCHANGED result

\* Lines 137-140, every entry well formed.
RenderOk(r) ==
  /\ pc[r] = "START"
  /\ ~RenderRaises(transcript[r])
  /\ formatted' = [formatted EXCEPT ![r] = Render(transcript[r])]
  /\ pc' = [pc EXCEPT ![r] = "RENDERED"]
  /\ UNCHANGED << chunkerVars, stampVars, api_key, active, transcript,
                  openai_api_key, max_chars, chunks, partial_summaries, calls,
                  raised, result >>

\* Lines 137-140, an entry raises.
RenderFail(r) ==
  /\ pc[r] = "START"
  /\ RenderRaises(transcript[r])
  /\ Handle(r, "KeyError")
  /\ UNCHANGED << chunkerVars, stampVars, api_key, active, transcript,
                  openai_api_key, max_chars, formatted, chunks,
                  partial_summaries, calls >>

\* The list comprehension of lines 146-149 goes on to the next chunk, or ends.
MoreChunks(done, n) == done < n

AfterChunks(done, n) ==
  IF MoreChunks(done, n) THEN "MAP_SETKEY" ELSE "MERGE_SETKEY"

\* Line 143.
Chunk(r) ==
  /\ pc[r] = "RENDERED"
  /\ chunks' = [chunks EXCEPT ![r] = chunk_text_by_chars(formatted[r], max_chars[r])]
  /\ pc' = [pc EXCEPT ![r] = AfterChunks(0, Len(chunks'[r]))]
  /\ UNCHANGED << chunkerVars, stampVars, api_key, active, transcript,
                  openai_api_key, max_chars, formatted, partial_summaries, calls,
                  raised, result >>

\* Line 113, in summarize_chunk_with_chatgpt.
ChunkSetKey(r) ==
  /\ pc[r] = "MAP_SETKEY"
  /\ api_key' = openai_api_key[r]
  /\ pc' = [pc EXCEPT ![r] = "MAP_CREATE"]
  /\ UNCHANGED << chunkerVars, stampVars, active, transcript, openai_api_key,
                  max_chars, formatted, chunks, partial_summaries, calls, raised,
                  result >>

\* Lines 123-131: the request for the next chunk is answered.
ChunkCreateOk(r) ==
  /\ pc[r] = "MAP_CREATE"
  /\ \E text \in Responses :
       LET k == Len(partial_summaries[r]) + 1 IN
       /\ calls' = [calls EXCEPT
                      ![r] = Append(@, Request("chunk", k, chunks[r][k], "ok", text))]
       /\ partial_summaries' = [partial_summaries EXCEPT ![r] = Append(@, strip(text))]
       /\ pc' = [pc EXCEPT ![r] = AfterChunks(k, Len(chunks[r]))]
  /\ UNCHANGED << chunkerVars, stampVars, api_key, active, transcript,
                  openai_api_key, max_chars, formatted, chunks, raised, result >>

\* A chunk request that raises, with the error swallowed: an empty partial
\* summary stands in and the comprehension goes on.
ChunkCreateFailSwallowed(r) ==
  /\ pc[r] = "MAP_CREATE"
  /\ \E kind \in LLMErrors :
       LET k == Len(partial_summaries[r]) + 1 IN
       /\ calls' = [calls EXCEPT
                      ![r] = Append(@, Request("chunk", k, chunks[r][k], kind, << >>))]
       /\ partial_summaries' = [partial_summaries EXCEPT ![r] = Append(@, << >>)]
       /\ pc' = [pc EXCEPT ![r] = AfterChunks(k, Len(chunks[r]))]
  /\ UNCHANGED << chunkerVars, stampVars, api_key, active, transcript,
                  openai_api_key, max_chars, formatted, chunks, raised, result >>

\* Lines 123-130: the request for the next chunk raises.
ChunkCreateFail(r) ==
  /\ pc[r] = "MAP_CREATE"
  /\ \E kind \in LLMErrors :
       LET k == Len(partial_summaries[r]) + 1 IN
       /\ calls' = [calls EXCEPT
                      ![r] = Append(@, Request("chunk", k, chunks[r][k], kind, << >>))]
       /\ Handle(r, kind)
  /\ UNCHANGED << chunkerVars, stampVars, api_key, active, transcript,
                  openai_api_key, max_chars, formatted, chunks, partial_summaries >>

\* Line 152.
MergeSetKey(r) ==
  /\ pc[r] = "MERGE_SETKEY"
  /\ api_key' = openai_api_key[r]
  /\ pc' = [pc EXCEPT ![r] = "MERGE_CREATE"]
  /\ UNCHANGED << chunkerVars, stampVars, active, transcript, openai_api_key,
                  max_chars, formatted, chunks, partial_summaries, calls, raised,
                  result >>

\* Lines 153-168: the merge request is answered.
MergeCreateOk(r) ==
  /\ pc[r] = "MERGE_CREATE"
  /\ \E text \in Responses :
       /\ calls' = [calls EXCEPT
                      ![r] = Append(@, Request("merge", 0,
                                               MergeUser(partial_summaries[r]),
                                               "ok", text))]
       /\ result' = [result EXCEPT ![r] = PyStr(strip(text))]
  /\ pc' = [pc EXCEPT ![r] = "RETURNED"]
  /\ UNCHANGED << chunkerVars, stampVars, api_key, active, transcript,
                  openai_api_key, max_chars, formatted, chunks, partial_summaries,
                  raised >>

\* Lines 153-167: the merge request raises.
MergeCreateFail(r) ==
  /\ pc[r] = "MERGE_CREATE"
  /\ \E kind \in LLMErrors :
       /\ calls' = [calls EXCEPT
                      ![r] = Append(@, Request("merge", 0,
                                               MergeUser(partial_summaries[r]),
                                               kind, << >>))]
       /\ Handle(r, kind)
  /\ UNCHANGED << chunkerVars, stampVars, api_key, active, transcript,
                  openai_api_key, max_chars, formatted, chunks, partial_summaries >>

Step(r) ==
  \/ RenderOk(r)
  \/ RenderFail(r)
  \/ Chunk(r)
  \/ ChunkSetKey(r)
  \/ ChunkCreateOk(r)
  \/ ChunkCreateFail(r)
  \/ MergeSetKey(r)
  \/ MergeCreateOk(r)
  \/ MergeCreateFail(r)

Next ==
  \/ \E r \in active : RenderOk(r)
  \/ \E r \in active : RenderFail(r)
  \/ \E r \in active : Chunk(r)
  \/ \E r \in active : ChunkSetKey(r)
  \/ \E r \in active : ChunkCreateOk(r)
  \/ \E r \in active : ChunkCreateFail(r)
  \/ \E r \in active : MergeSetKey(r)
  \/ \E r \in active : MergeCreateOk(r)
  \/ \E r \in active : MergeCreateFail(r)

RunStart ==
  /\ api_key = "unset"
  /\ pc = [r \in Runs |-> "START"]
  /\ formatted = [r \in Runs |-> << >>]
  /\ chunks = [r \in Runs |-> << >>]
  /\ partial_summaries = [r \in Runs |-> << >>]
  /\ calls = [r \in Runs |-> << >>]
  /\ raised = [r \in Runs |-> "none"]
  /\ result = [r \in Runs |-> NoValue]
  /\ ChunkerIdle
  /\ StampIdle

\* One run of the pipeline, as the script makes it (lines 190-195).
Init ==
  /\ active = {1}
  /\ \E t \in Transcripts : transcript = [r \in Runs |-> IF r = 1 THEN t ELSE << >>]
  /\ \E m \in Budgets : max_chars = [r \in Runs |-> IF r = 1 THEN m ELSE 0]
  /\ openai_api_key = [r \in Runs |-> IF r = 1 THEN "k1" ELSE "unset"]
  /\ RunStart

Spec == Init /\ [][Next]_vars

\* Two runs in one process (two threads), each with a credential of its own.
TwoRunTranscripts == { t \in Transcripts : Len(t) >= 1 }

InitRuns ==
  /\ active = Runs
  /\ transcript \in [Runs -> TwoRunTranscripts]
  /\ max_chars = [r \in Runs |-> SmallBudget]
  /\ openai_api_key = [r \in Runs |-> IF r = 1 THEN "k1" ELSE "k2"]
  /\ RunStart

SpecRuns == InitRuns /\ [][Next]_vars

\* ------------------------------------------- reading a str back

\* str.split(c) for a one-character separator: the inverse of c.join.
RECURSIVE SplitOn(_, _)
SplitOn(s, c) ==
  LET P == { i \in 1..Len(s) : s[i] = c } IN
  IF P = {} THEN << s >>
  ELSE LET b == CHOOSE i \in P : \A j \in P : i <= j
       IN << SubSeq(s, 1, b - 1) >> \o SplitOn(SubSeq(s, b + 1, Len(s)), c)

RECURSIVE Flatten(_)
Flatten(ss) ==
  IF ss = << >> THEN << >> ELSE ss[1] \o Flatten(Tail(ss))

DigitValue(c) == CHOOSE d \in 0..9 : DigitChars[d + 1] = c

IsDigits(s) == \A i \in 1..Len(s) : \E d \in 0..9 : DigitChars[d + 1] = s[i]

\* int(s) for a str of decimal digits.
RECURSIVE ParseInt(_)
ParseInt(s) ==
  IF s = << >> THEN 0
  ELSE 10 * ParseInt(SubSeq(s, 1, Len(s) - 1)) + DigitValue(s[Len(s)])

\* ------------------------------------------------- claims: the chunker

ChunkLinesBack == Flatten([i \in 1..Len(out_chunks) |-> SplitOn(out_chunks[i], LF)])

\* C1: for every text and every positive max_chars, the lines of the returned
\* chunks, taken in chunk order and rejoined with '\n', are the original text.
C1_RoundTrip ==
  (cstate = "returned" /\ in_max_chars > 0)
    => join(<< LF >>, ChunkLinesBack) = in_text

\* A chunk that is one line: it holds no line boundary.
SingleLine(c) == splitlines(c) = << c >>

\* C2: for every text and every positive max_chars, every returned chunk is at
\* most max_chars long, unless it is one single line longer than max_chars.
C2_SizeBound ==
  (cstate = "returned" /\ in_max_chars > 0)
    => \A i \in 1..Len(out_chunks) :
         \/ Len(out_chunks[i]) <= in_max_chars
         \/ SingleLine(out_chunks[i]) /\ Len(out_chunks[i]) > in_max_chars

\* Several chunks, one of several lines within the budget, one an over-long line.
C2_Witness ==
  /\ cstate = "returned"
  /\ in_max_chars > 0
  /\ Len(out_chunks) >= 2
  /\ \E i \in 1..Len(out_chunks) :
       LF \in { out_chunks[i][j] : j \in 1..Len(out_chunks[i]) }
  /\ \E i \in 1..Len(out_chunks) : Len(out_chunks[i]) > in_max_chars

\* C5: called with max_chars <= 0, chunk_text_by_chars ends by raising an
\* InvalidConfigurationError, whatever the text; it returns no chunks.
C5_NonPositiveRejected ==
  (cstate # "called" /\ in_max_chars <= 0)
    => cstate = "raised InvalidConfigurationError"

\* C9: a text no longer than max_chars comes back as exactly one chunk, equal to
\* the text, line breaks included.
C9_ShortTextOneChunk ==
  (cstate = "returned" /\ Len(in_text) <= in_max_chars)
    => out_chunks = << in_text >>

\* A text that exactly fills the budget and ends with a line break.
C9_Witness ==
  /\ cstate = "returned"
  /\ Len(in_text) = in_max_chars
  /\ Len(in_text) >= 2
  /\ in_text[Len(in_text)] = LF
  /\ out_chunks = << in_text >>

\* --------------------------------------- claims: the timestamp formatter

StampFields == SplitOn(out_stamp, ":")

StampOf(h1, h2, m1, m2, s1, s2) == << h1, h2, ":", m1, m2, ":", s1, s2 >>

\* C10: for seconds >= 0, format_timestamp gives HH:MM:SS with MM and SS two
\* digits in 00..59 and HH zero-padded to at least two digits, and
\* HH*3600 + MM*60 + SS read back from it is floor(seconds); 0 gives 00:00:00,
\* 3661 gives 01:01:01 and 7325 gives 02:02:05.
C10_StampRoundTrip ==
  tstate = "returned" =>
    /\ Len(StampFields) = 3
    /\ \A i \in 1..3 : IsDigits(StampFields[i])
    /\ Len(StampFields[1]) >= 2
    /\ Len(StampFields[1]) > 2 => StampFields[1][1] # "0"
    /\ Len(StampFields[2]) = 2 /\ ParseInt(StampFields[2]) <= 59
    /\ Len(StampFields[3]) = 2 /\ ParseInt(StampFields[3]) <= 59
    /\ ParseInt(StampFields[1]) * 3600 + ParseInt(StampFields[2]) * 60
         + ParseInt(StampFields[3]) = in_seconds \div Scale
    /\ in_seconds = 0 => out_stamp = StampOf("0", "0", "0", "0", "0", "0")
    /\ in_seconds = 3661 * Scale => out_stamp = StampOf("0", "1", "0", "1", "0", "1")
    /\ in_seconds = 7325 * Scale => out_stamp = StampOf("0", "2", "0", "2", "0", "5")

\* A value of a hundred hours or more with a fraction of a second.
C10_Witness ==
  /\ tstate = "returned"
  /\ in_seconds % Scale # 0
  /\ in_seconds \div Scale >= 360000 + 3661
  /\ Len(out_stamp) = 9

\* -------------------------------------------------- claims: the pipeline

\* The error types of the taxonomy: what a typed error result would be.
TypedErrors ==
  {"SourceResolutionError", "TranscriptUnavailableError",
   "InvalidConfigurationError", "SummarizationError"}

\* A result that names the chunk it failed on.
ReferencesChunk(res, k) == "chunk" \in DOMAIN res /\ res.chunk = k

C6_CallOrder ==
  \A r \in active :
    LET n == Len(chunks[r])
        cs == calls[r]
    IN (\A i \in 1..Len(cs) : cs[i].outcome = "ok") =>
         /\ Len(cs) <= n + 1
         /\ \A i \in 1..Len(cs) :
              /\ i <= n => /\ cs[i].stage = "chunk"
                           /\ cs[i].chunk = i
                           /\ cs[i].user = chunks[r][i]
              /\ i = n + 1 =>
                   /\ cs[i].stage = "merge"
                   /\ cs[i].user =
                        join(MergeSeparator, [j \in 1..n |-> strip(cs[j].text)])
         /\ (pc[r] = "RETURNED" /\ raised[r] = "none") => Len(cs) = n + 1

\* A run over two chunks whose partial summaries differ has returned its summary.
C6_Witness ==
  \E r \in active :
    /\ pc[r] = "RETURNED"
    /\ raised[r] = "none"
    /\ Len(chunks[r]) = 2
    /\ Len(calls[r]) = 3
    /\ partial_summaries[r][1] # partial_summaries[r][2]

\* C7: every request a run sends carries that run's own credential, whatever
\* the other run does.
C7_OwnCredential ==
  \A r \in active : \A i \in 1..Len(calls[r]) :
    calls[r][i].api_key = openai_api_key[r]

\* C8: a run over an empty transcript with a positive max_chars renders the
\* empty text, chunks it into no chunk or one empty chunk, never lets an
\* exception escape, can always go on until it returns, and returns a str.
C8_EmptyTranscriptDefined ==
  \A r \in active :
    (transcript[r] = << >> /\ max_chars[r] > 0) =>
      /\ pc[r] # "CRASHED"
      /\ pc[r] # "START" => formatted[r] = << >>
      /\ pc[r] \notin {"START", "RENDERED"} => chunks[r] \in { << >>, << << >> >> }
      /\ pc[r] = "RETURNED" => result[r].pytype = "str"
      /\ pc[r] # "RETURNED" => ENABLED Step(r)

\* A run over an empty transcript whose chunk request failed and was handled.
C8_Witness ==
  \E r \in active :
    /\ transcript[r] = << >>
    /\ max_chars[r] > 0
    /\ pc[r] = "RETURNED"
    /\ raised[r] \in LLMErrors
    /\ Len(calls[r]) = 1
    /\ chunks[r] = << << >> >>

====
